---- MODULE Spec2Model ----
(***************************************************************************)
(* Employee-Data-Management: the REST handlers over the employees table.   *)
(*   /api/employees        GET POST PUT DELETE   (id in the query string)  *)
(*   /api/employees/[id]   GET PUT DELETE        (id in the path)          *)
(* A handler runs until its next awaited storage call; each storage call   *)
(* is one atomic step, so concurrent requests interleave between them.     *)
(***************************************************************************)
EXTENDS Integers, Sequences, FiniteSets, TLC

VARIABLES employees, sqlite_sequence, clock, handlers, resp, nreq

vars == <<employees, sqlite_sequence, clock, handlers, resp, nreq>>

\* ------------------------------------------------------------- bounds
\* Requests begun in one behaviour.
MaxRequests == 4
\* Requests begun in one behaviour over a large alphabet.
FewRequests == 3
\* Rows a list read is asked of, beyond those a behaviour can store.
MaxRows == 150
\* Longest page asked for when a table is read page by page.
MaxPage == 3
\* Latest instant new Date() can return.
MaxClock == 1

\* ------------------------------------------------- JavaScript values
\* A JSON value: undefined (absent), null, a number or a string. Strings are
\* sequences of characters. Every value carries all three fields.
Undefined == [t |-> "undefined", n |-> 0, s |-> <<>>]
Null == [t |-> "null", n |-> 0, s |-> <<>>]
Num(k) == [t |-> "number", n |-> k, s |-> <<>>]
Str(chars) == [t |-> "string", n |-> 0, s |-> chars]

IsString(x) == x.t = "string"
\* !x
Falsy(x) ==
    \/ x.t = "undefined"
    \/ x.t = "null"
    \/ x.t = "number" /\ x.n = 0
    \/ x.t = "string" /\ x.s = <<>>

\* ------------------------------------------------------------ strings
UpperCase == <<"A", "B", "C", "D", "E", "J", "X", "Z", "T">>
LowerCase == <<"a", "b", "c", "d", "e", "j", "x", "z", "t">>
DigitChars == <<"0", "1", "2", "3", "4", "5", "6", "7", "8", "9">>
Digits == {DigitChars[i] : i \in 1..Len(DigitChars)}
WhiteSpace == {" ", "\t", "\n"}
LineTerminators == {"\n", "\r"}

lowerChar(c) ==
    IF \E i \in 1..Len(UpperCase) : UpperCase[i] = c
    THEN LowerCase[CHOOSE i \in 1..Len(UpperCase) : UpperCase[i] = c]
    ELSE c

\* String.prototype.toLowerCase
RECURSIVE toLowerCase(_)
toLowerCase(s) ==
    IF s = <<>> THEN <<>> ELSE <<lowerChar(Head(s))>> \o toLowerCase(Tail(s))

\* String.prototype.trim
trim(s) ==
    LET kept == {i \in 1..Len(s) : s[i] \notin WhiteSpace}
    IN IF kept = {} THEN <<>>
       ELSE LET lo == CHOOSE i \in kept : \A j \in kept : i <= j
                hi == CHOOSE i \in kept : \A j \in kept : i >= j
            IN SubSeq(s, lo, hi)

\* String.prototype.includes, for a one-character needle
includes(s, c) == \E i \in 1..Len(s) : s[i] = c

\* /^\d{4}-\d{2}-\d{2}T\d{2}:\d{2}:\d{2}.\d{3}Z$/ : position 20 is an
\* unescaped dot, which matches any character except a line terminator.
dateRegexShape == <<"d", "d", "d", "d", "-", "d", "d", "-", "d", "d", "T",
                    "d", "d", ":", "d", "d", ":", "d", "d", "any",
                    "d", "d", "d", "Z">>

matchesAt(shape, c) ==
    CASE shape = "d" -> c \in Digits
      [] shape = "any" -> c \notin LineTerminators
      [] OTHER -> c = shape

dateRegexTest(s) ==
    /\ Len(s) = Len(dateRegexShape)
    /\ \A i \in 1..Len(s) : matchesAt(dateRegexShape[i], s[i])

\* NaN, or the integer parseInt returned
NaN == [nan |-> TRUE, n |-> 0]
Parsed(k) == [nan |-> FALSE, n |-> k]

digitValue(c) == (CHOOSE i \in 1..Len(DigitChars) : DigitChars[i] = c) - 1

RECURSIVE skipWhiteSpace(_)
skipWhiteSpace(s) ==
    IF s # <<>> /\ Head(s) \in WhiteSpace THEN skipWhiteSpace(Tail(s)) ELSE s

\* the value of the longest prefix of digits of s, seen so far: acc
RECURSIVE digitsPrefix(_, _)
digitsPrefix(s, acc) ==
    IF s # <<>> /\ Head(s) \in Digits
    THEN digitsPrefix(Tail(s), 10 * acc + digitValue(Head(s)))
    ELSE acc

\* parseInt(string): leading white space, an optional sign, then the longest
\* prefix of decimal digits; NaN when there is none.
parseInt(s) ==
    LET t == skipWhiteSpace(s)
        signed == t # <<>> /\ Head(t) \in {"+", "-"}
        u == IF signed THEN Tail(t) ELSE t
    IN IF u = <<>> \/ Head(u) \notin Digits THEN NaN
       ELSE IF signed /\ Head(t) = "-" THEN Parsed(0 - digitsPrefix(u, 0))
       ELSE Parsed(digitsPrefix(u, 0))

\* ------------------------------------------------------ the table
\* A row of employees. Text and real columns hold JavaScript values (a
\* string, a number, or null for the nullable phone); id and the two
\* timestamps are integers (an instant stands for its toISOString text).
Row(id, firstName, lastName, email, position, department, salary, hireDate, phone, createdAt, updatedAt) ==
    [id |-> id, firstName |-> firstName, lastName |-> lastName,
     email |-> email, position |-> position, department |-> department,
     salary |-> salary, hireDate |-> hireDate, phone |-> phone,
     createdAt |-> createdAt, updatedAt |-> updatedAt]

\* no row: employee[0] of an empty result
NoRow == Row(0, Undefined, Undefined, Undefined, Undefined, Undefined,
             Undefined, Undefined, Undefined, 0, 0)

\* the columns a request body can name
Fields == {"firstName", "lastName", "email", "position", "department",
           "salary", "hireDate", "phone"}
\* .notNull() columns among them
NotNullFields == Fields \ {"phone"}

\* select().from(employees).where(eq(employees.id, id))
selectById(id) == {e \in employees : e.id = id}

\* select().from(employees).where(eq(employees.email, email))
selectByEmail(email) == {e \in employees : e.email = email}

\* the row a .limit(1) select or a returning() hands back first
first(rows) == IF rows = {} THEN NoRow ELSE CHOOSE e \in rows : TRUE

\* a table without the unique index on email
violatesUnique_never(id, email) == FALSE

\* email: text('email').notNull().unique(): a write that would leave two
\* rows with one email is refused
violatesUnique(id, email) == \E e \in employees : e.id # id /\ e.email = email

\* ------------------------------------------------------ requests
\* A request: the method, the route ("collection": /api/employees with the id
\* in the query string, "item": /api/employees/[id]), the id parameter
\* (null when absent) and the JSON body (undefined for each absent key).
Body(firstName, lastName, email, position, department, salary, hireDate, phone) ==
    [firstName |-> firstName, lastName |-> lastName, email |-> email,
     position |-> position, department |-> department, salary |-> salary,
     hireDate |-> hireDate, phone |-> phone]

NoBody == Body(Undefined, Undefined, Undefined, Undefined, Undefined,
               Undefined, Undefined, Undefined)

\* searchParams.get(name) of the list's parameters: null when absent
Query(limit, offset, search, department) ==
    [limit |-> limit, offset |-> offset, search |-> search, department |-> department]

NoQuery == Query(Null, Null, Null, Null)

Request(method, route, id, body) ==
    [method |-> method, route |-> route, id |-> id, body |-> body, query |-> NoQuery]

NoRequest == Request("", "", Null, NoBody)

\* NextResponse.json(body, {status}): code is the error code of an error
\* body ("" when it has none), data the record of a success body.
\* list is the array of a list read's body.
Response(by, req, status, code, data) ==
    [by |-> by, req |-> req, status |-> status, code |-> code, data |-> data,
     list |-> <<>>]

\* a handler between requests, and one suspended at an awaited storage call
Idle == [pc |-> "idle", req |-> NoRequest, updatedAt |-> 0]
Suspended(pc, req, updatedAt) == [pc |-> pc, req |-> req, updatedAt |-> updatedAt]

Procs == {"h1", "h2"}

\* new Date(): the clock never runs backwards, and moves at most one instant
\* between two readings
Now == {t \in {clock, clock + 1} : t <= MaxClock}

\* !id, the test of the parsed id forgotten
invalidId_emptyOnly(id) == Falsy(id)

\* !id || isNaN(parseInt(id))
invalidId(id) == Falsy(id) \/ (IsString(id) /\ parseInt(id.s).nan)

\* the first failed check of a handler's sequence of checks, "" when none
\* fails: each check is "" (passed), an error code, or "THROW"
firstFailure(checks) ==
    LET failed == {i \in 1..Len(checks) : checks[i] # ""}
    IN IF failed = {} THEN ""
       ELSE checks[CHOOSE i \in failed : \A j \in failed : i <= j]

\* if (!x) return code;   the test of the trimmed text forgotten
required_untrimmed(x, code) ==
    IF Falsy(x) THEN code ELSE IF ~IsString(x) THEN "THROW" ELSE ""

\* if (!x || x.trim() === '') return code;   x.trim() throws a TypeError
\* when x is truthy and not a string
required(x, code) ==
    IF Falsy(x) THEN code
    ELSE IF ~IsString(x) THEN "THROW"
    ELSE IF trim(x.s) = <<>> THEN code
    ELSE ""

\* the handler answers, and is free for the next request
Reply(p, req, status, code, data) ==
    /\ resp' = Response(p, req, status, code, data)
    /\ handlers' = [handlers EXCEPT ![p] = Idle]

Suspend(p, pc, req, updatedAt) ==
    /\ handlers' = [handlers EXCEPT ![p] = Suspended(pc, req, updatedAt)]
    /\ UNCHANGED resp

\* email.trim(), the lower-casing forgotten
normalizeEmail_trimOnly(email) == Str(trim(email.s))

\* email.toLowerCase().trim()
normalizeEmail(email) == Str(trim(toLowerCase(email.s)))

\* phone ? phone.trim() : null
sanitizePhone(phone) == IF Falsy(phone) THEN Null ELSE Str(trim(phone.s))

\* --------------------------------------------- POST /api/employees
\* the validation of POST with the last name checked first
postChecks_lastNameFirst(b) ==
    << required(b.lastName, "MISSING_LAST_NAME"),
       required(b.firstName, "MISSING_FIRST_NAME"),
       required(b.email, "MISSING_EMAIL"),
       IF ~includes(b.email.s, "@") THEN "INVALID_EMAIL_FORMAT" ELSE "",
       required(b.position, "MISSING_POSITION"),
       required(b.department, "MISSING_DEPARTMENT"),
       IF b.salary.t \in {"undefined", "null"} THEN "MISSING_SALARY" ELSE "",
       IF b.salary.t # "number" \/ b.salary.n <= 0 THEN "INVALID_SALARY" ELSE "",
       required(b.hireDate, "MISSING_HIRE_DATE"),
       IF ~dateRegexTest(b.hireDate.s) THEN "INVALID_HIRE_DATE_FORMAT" ELSE "" >>

\* the validation of POST, in the order of the code
postChecks(b) ==
    << required(b.firstName, "MISSING_FIRST_NAME"),
       required(b.lastName, "MISSING_LAST_NAME"),
       required(b.email, "MISSING_EMAIL"),
       IF ~includes(b.email.s, "@") THEN "INVALID_EMAIL_FORMAT" ELSE "",
       required(b.position, "MISSING_POSITION"),
       required(b.department, "MISSING_DEPARTMENT"),
       IF b.salary.t \in {"undefined", "null"} THEN "MISSING_SALARY" ELSE "",
       IF b.salary.t # "number" \/ b.salary.n <= 0 THEN "INVALID_SALARY" ELSE "",
       required(b.hireDate, "MISSING_HIRE_DATE"),
       IF ~dateRegexTest(b.hireDate.s) THEN "INVALID_HIRE_DATE_FORMAT" ELSE "" >>

\* the body stored as it came
sanitizedData_raw(b, id, createdAt, updatedAt) ==
    Row(id, b.firstName, b.lastName, b.email, b.position, b.department,
        b.salary, b.hireDate, b.phone, createdAt, updatedAt)

\* sanitizedData, with the id the table gives the row
sanitizedData(b, id, createdAt, updatedAt) ==
    Row(id, Str(trim(b.firstName.s)), Str(trim(b.lastName.s)),
        normalizeEmail(b.email), Str(trim(b.position.s)),
        Str(trim(b.department.s)), b.salary, b.hireDate,
        sanitizePhone(b.phone), createdAt, updatedAt)

\* the id of the next row, were it one more than the largest id stored
nextId_maxRowid ==
    IF employees = {} THEN 1
    ELSE 1 + (CHOOSE i \in {e.id : e \in employees} : \A e \in employees : e.id <= i)

\* integer('id').primaryKey({ autoIncrement: true }): the id of the next row
\* is one more than the largest id the table ever gave
nextId == sqlite_sequence + 1

\* POST up to its first storage call: validation, then the email lookup
POST(p, r) ==
    /\ handlers[p].pc = "idle"
    /\ nreq < MaxRequests
    /\ nreq' = nreq + 1
    /\ LET failure == firstFailure(postChecks(r.body))
       IN IF failure = "THROW" THEN Reply(p, r, 500, "", NoRow)
          ELSE IF failure # "" THEN Reply(p, r, 400, failure, NoRow)
          ELSE IF selectByEmail(normalizeEmail(r.body.email)) # {}
          THEN Reply(p, r, 400, "EMAIL_EXISTS", NoRow)
          ELSE Suspend(p, "POST_insert", r, 0)
    /\ UNCHANGED <<employees, sqlite_sequence, clock>>

\* POST from the email lookup's answer: sanitize, insert, answer 201. The
\* insert throws on a duplicate email, and the catch block answers 500.
POST_insert(p) ==
    LET r == handlers[p].req
        b == r.body
    IN /\ handlers[p].pc = "POST_insert"
       /\ UNCHANGED nreq
       /\ IF ~Falsy(b.phone) /\ ~IsString(b.phone)
          THEN /\ Reply(p, r, 500, "", NoRow)
               /\ UNCHANGED <<employees, sqlite_sequence, clock>>
          ELSE \E createdAt \in Now :
               \E updatedAt \in {t \in {createdAt, createdAt + 1} : t <= MaxClock} :
                  LET row == sanitizedData(b, nextId, createdAt, updatedAt)
                  IN /\ clock' = updatedAt
                     /\ IF violatesUnique(row.id, row.email)
                        THEN /\ Reply(p, r, 500, "", NoRow)
                             /\ UNCHANGED <<employees, sqlite_sequence>>
                        ELSE /\ employees' = employees \cup {row}
                             /\ sqlite_sequence' = row.id
                             /\ Reply(p, r, 201, "", row)

\* ---------------------------------------------- PUT /api/employees?id=
Defined(x) == x.t # "undefined"

\* if (x !== undefined) { if (x.trim() === '') return code; ... }
\* x.trim() throws a TypeError when x is null or a number
present(x, code) ==
    IF ~Defined(x) THEN ""
    ELSE IF ~IsString(x) THEN "THROW"
    ELSE IF trim(x.s) = <<>> THEN code
    ELSE ""

\* the checks of PUT before its email lookup
putChecks(b) ==
    << present(b.firstName, "INVALID_FIRST_NAME"),
       present(b.lastName, "INVALID_LAST_NAME"),
       present(b.email, "INVALID_EMAIL"),
       IF Defined(b.email) /\ ~includes(b.email.s, "@")
       THEN "INVALID_EMAIL_FORMAT" ELSE "" >>

\* the checks of PUT after its email lookup, a salary of zero let through
putChecksAfterEmail_salaryNegative(b) ==
    << present(b.position, "INVALID_POSITION"),
       present(b.department, "INVALID_DEPARTMENT"),
       IF Defined(b.salary) /\ (b.salary.t # "number" \/ b.salary.n < 0)
       THEN "INVALID_SALARY" ELSE "",
       IF Defined(b.hireDate) /\ ~(IsString(b.hireDate) /\ dateRegexTest(b.hireDate.s))
       THEN "INVALID_HIRE_DATE_FORMAT" ELSE "",
       IF Defined(b.phone) /\ ~Falsy(b.phone) /\ ~IsString(b.phone)
       THEN "THROW" ELSE "" >>

\* the checks of PUT after its email lookup. dateRegex.test(x) matches the
\* text of x, which for null or a number is never a date.
putChecksAfterEmail(b) ==
    << present(b.position, "INVALID_POSITION"),
       present(b.department, "INVALID_DEPARTMENT"),
       IF Defined(b.salary) /\ (b.salary.t # "number" \/ b.salary.n <= 0)
       THEN "INVALID_SALARY" ELSE "",
       IF Defined(b.hireDate) /\ ~(IsString(b.hireDate) /\ dateRegexTest(b.hireDate.s))
       THEN "INVALID_HIRE_DATE_FORMAT" ELSE "",
       IF Defined(b.phone) /\ ~Falsy(b.phone) /\ ~IsString(b.phone)
       THEN "THROW" ELSE "" >>

\* .set(updates) with the phone set whether the body names it or not
updates_phoneAlways(e, b, updatedAt) ==
    [e EXCEPT
       !.firstName = IF Defined(b.firstName) THEN Str(trim(b.firstName.s)) ELSE @,
       !.lastName = IF Defined(b.lastName) THEN Str(trim(b.lastName.s)) ELSE @,
       !.email = IF Defined(b.email) THEN normalizeEmail(b.email) ELSE @,
       !.position = IF Defined(b.position) THEN Str(trim(b.position.s)) ELSE @,
       !.department = IF Defined(b.department) THEN Str(trim(b.department.s)) ELSE @,
       !.salary = IF Defined(b.salary) THEN b.salary ELSE @,
       !.hireDate = IF Defined(b.hireDate) THEN b.hireDate ELSE @,
       !.phone = sanitizePhone(b.phone),
       !.updatedAt = updatedAt]

\* the updates object without its updatedAt
updates_staleUpdatedAt(e, b, updatedAt) ==
    [e EXCEPT
       !.firstName = IF Defined(b.firstName) THEN Str(trim(b.firstName.s)) ELSE @,
       !.lastName = IF Defined(b.lastName) THEN Str(trim(b.lastName.s)) ELSE @,
       !.email = IF Defined(b.email) THEN normalizeEmail(b.email) ELSE @,
       !.position = IF Defined(b.position) THEN Str(trim(b.position.s)) ELSE @,
       !.department = IF Defined(b.department) THEN Str(trim(b.department.s)) ELSE @,
       !.salary = IF Defined(b.salary) THEN b.salary ELSE @,
       !.hireDate = IF Defined(b.hireDate) THEN b.hireDate ELSE @,
       !.phone = IF Defined(b.phone) THEN sanitizePhone(b.phone) ELSE @]

\* .set(updates) of PUT on a row: the keys of the body that are defined, and
\* updatedAt
updates(e, b, updatedAt) ==
    [e EXCEPT
       !.firstName = IF Defined(b.firstName) THEN Str(trim(b.firstName.s)) ELSE @,
       !.lastName = IF Defined(b.lastName) THEN Str(trim(b.lastName.s)) ELSE @,
       !.email = IF Defined(b.email) THEN normalizeEmail(b.email) ELSE @,
       !.position = IF Defined(b.position) THEN Str(trim(b.position.s)) ELSE @,
       !.department = IF Defined(b.department) THEN Str(trim(b.department.s)) ELSE @,
       !.salary = IF Defined(b.salary) THEN b.salary ELSE @,
       !.hireDate = IF Defined(b.hireDate) THEN b.hireDate ELSE @,
       !.phone = IF Defined(b.phone) THEN sanitizePhone(b.phone) ELSE @,
       !.updatedAt = updatedAt]

\* a written row the table refuses: null in a notNull() column, or an email
\* another row holds
violatesConstraint(e) ==
    \/ \E f \in NotNullFields : e[f].t = "null"
    \/ violatesUnique(e.id, e.email)

\* the id of the request, parsed
idOf(r) == parseInt(r.id.s).n

\* PUT up to its first storage call: the id, then the lookup of the row
PUT(p, r) ==
    /\ handlers[p].pc = "idle"
    /\ nreq < MaxRequests
    /\ nreq' = nreq + 1
    /\ IF invalidId(r.id) THEN Reply(p, r, 400, "INVALID_ID", NoRow)
       ELSE IF selectById(idOf(r)) = {}
       THEN Reply(p, r, 404, "EMPLOYEE_NOT_FOUND", NoRow)
       ELSE Suspend(p, "PUT_json", r, 0)
    /\ UNCHANGED <<employees, sqlite_sequence, clock>>

\* the update issued before the remaining checks
putUpdate_writeFirst(p, r, updatedAt) ==
    LET failure == firstFailure(putChecksAfterEmail(r.body))
        found == selectById(idOf(r))
        new == updates(first(found), r.body, updatedAt)
    IN /\ employees' = IF found = {} THEN employees ELSE (employees \ found) \cup {new}
       /\ IF failure = "THROW" THEN Reply(p, r, 500, "", NoRow)
          ELSE IF failure # "" THEN Reply(p, r, 400, failure, NoRow)
          ELSE Reply(p, r, 200, "", new)

\* PUT from the end of its email lookup (or, for a body without email, of
\* its validation) to its answer: the remaining checks, then the update.
\* An update that matches no row returns no row, and the answer is
\* NextResponse.json(undefined): a 200 without a body, or a TypeError caught
\* as 500, as the framework's version has it.
putUpdate(p, r, updatedAt) ==
    LET failure == firstFailure(putChecksAfterEmail(r.body))
        found == selectById(idOf(r))
        new == updates(first(found), r.body, updatedAt)
    IN IF failure = "THROW"
       THEN Reply(p, r, 500, "", NoRow) /\ UNCHANGED employees
       ELSE IF failure # ""
       THEN Reply(p, r, 400, failure, NoRow) /\ UNCHANGED employees
       ELSE IF found = {}
       THEN /\ \E status \in {200, 500} : Reply(p, r, status, "", NoRow)
            /\ UNCHANGED employees
       ELSE IF violatesConstraint(new)
       THEN Reply(p, r, 500, "", NoRow) /\ UNCHANGED employees
       ELSE /\ employees' = (employees \ found) \cup {new}
            /\ Reply(p, r, 200, "", new)

\* PUT from the body to its next storage call: updatedAt is read, the first
\* checks run, and a body with an email awaits the email lookup
PUT_json(p) ==
    LET r == handlers[p].req
        failure == firstFailure(putChecks(r.body))
        emailCheck == selectByEmail(normalizeEmail(r.body.email))
    IN /\ handlers[p].pc = "PUT_json"
       /\ UNCHANGED <<nreq, sqlite_sequence>>
       /\ IF failure = "THROW"
          THEN Reply(p, r, 500, "", NoRow) /\ UNCHANGED <<employees, clock>>
          ELSE IF failure # ""
          THEN Reply(p, r, 400, failure, NoRow) /\ UNCHANGED <<employees, clock>>
          ELSE \E updatedAt \in Now :
               /\ clock' = updatedAt
               /\ IF ~Defined(r.body.email) THEN putUpdate(p, r, updatedAt)
                  ELSE IF emailCheck # {} /\ first(emailCheck).id # idOf(r)
                  THEN Reply(p, r, 400, "EMAIL_EXISTS", NoRow) /\ UNCHANGED employees
                  ELSE Suspend(p, "PUT_update", r, updatedAt) /\ UNCHANGED employees

PUT_update(p) ==
    /\ handlers[p].pc = "PUT_update"
    /\ UNCHANGED <<nreq, sqlite_sequence, clock>>
    /\ putUpdate(p, handlers[p].req, handlers[p].updatedAt)

\* --------------------------------------------- PUT /api/employees/[id]
\* email.trim().toLowerCase()
trimmedEmail(email) == Str(toLowerCase(trim(email.s)))

\* x.trim() on a defined value that is no string throws
trimThrows(x) == Defined(x) /\ ~IsString(x)

\* .set(updates) of the item route's PUT on a row
updates_id(e, b, updatedAt) ==
    [e EXCEPT
       !.firstName = IF Defined(b.firstName) THEN Str(trim(b.firstName.s)) ELSE @,
       !.lastName = IF Defined(b.lastName) THEN Str(trim(b.lastName.s)) ELSE @,
       !.email = IF Defined(b.email) THEN trimmedEmail(b.email) ELSE @,
       !.position = IF Defined(b.position) THEN Str(trim(b.position.s)) ELSE @,
       !.department = IF Defined(b.department) THEN Str(trim(b.department.s)) ELSE @,
       !.salary = IF Defined(b.salary) THEN b.salary ELSE @,
       !.hireDate = IF Defined(b.hireDate) THEN b.hireDate ELSE @,
       !.phone = IF Defined(b.phone) THEN sanitizePhone(b.phone) ELSE @,
       !.updatedAt = updatedAt]

\* select().where(eq(employees.email, email)), the record itself not excluded
emailExists_anyId(email, id) == {e \in employees : e.email = email}

\* select().where(and(eq(employees.email, email), ne(employees.id, id)))
emailExists(email, id) == {e \in employees : e.email = email /\ e.id # id}

\* the item route's PUT up to its first storage call
PUT_id(p, r) ==
    /\ handlers[p].pc = "idle"
    /\ nreq < MaxRequests
    /\ nreq' = nreq + 1
    /\ IF invalidId(r.id) THEN Reply(p, r, 400, "INVALID_ID", NoRow)
       ELSE IF selectById(idOf(r)) = {}
       THEN Reply(p, r, 404, "EMPLOYEE_NOT_FOUND", NoRow)
       ELSE Suspend(p, "PUT_id_json", r, 0)
    /\ UNCHANGED <<employees, sqlite_sequence, clock>>

\* from the end of the email lookup to the answer: the salary check,
\* updatedAt, the updates (each trim of a value that is no string throws),
\* then the update; an update that matches no row answers UPDATE_FAILED
putUpdate_id(p, r) ==
    LET b == r.body
        found == selectById(idOf(r))
    IN IF Defined(b.salary) /\ (b.salary.t # "number" \/ b.salary.n <= 0)
       THEN Reply(p, r, 400, "INVALID_SALARY", NoRow) /\ UNCHANGED <<employees, clock>>
       ELSE IF \/ \E f \in {"firstName", "lastName", "position", "department"} :
                     trimThrows(b[f])
               \/ Defined(b.phone) /\ ~Falsy(b.phone) /\ ~IsString(b.phone)
       THEN Reply(p, r, 500, "", NoRow) /\ UNCHANGED <<employees, clock>>
       ELSE \E updatedAt \in Now :
            LET new == updates_id(first(found), b, updatedAt)
            IN /\ clock' = updatedAt
               /\ IF found = {}
                  THEN Reply(p, r, 500, "UPDATE_FAILED", NoRow) /\ UNCHANGED employees
                  ELSE IF violatesConstraint(new)
                  THEN Reply(p, r, 500, "", NoRow) /\ UNCHANGED employees
                  ELSE /\ employees' = (employees \ found) \cup {new}
                       /\ Reply(p, r, 200, "", new)

\* from the body to the next storage call: a body with an email has its
\* email checked and looked up
PUT_id_json(p) ==
    LET r == handlers[p].req
        email == r.body.email
    IN /\ handlers[p].pc = "PUT_id_json"
       /\ UNCHANGED <<nreq, sqlite_sequence>>
       /\ IF ~Defined(email) THEN putUpdate_id(p, r)
          ELSE IF ~IsString(email)
          THEN Reply(p, r, 500, "", NoRow) /\ UNCHANGED <<employees, clock>>
          ELSE IF ~includes(trimmedEmail(email).s, "@")
          THEN Reply(p, r, 400, "INVALID_EMAIL", NoRow) /\ UNCHANGED <<employees, clock>>
          ELSE IF emailExists(trimmedEmail(email), idOf(r)) # {}
          THEN Reply(p, r, 400, "EMAIL_EXISTS", NoRow) /\ UNCHANGED <<employees, clock>>
          ELSE Suspend(p, "PUT_id_update", r, 0) /\ UNCHANGED <<employees, clock>>

PUT_id_update(p) ==
    /\ handlers[p].pc = "PUT_id_update"
    /\ UNCHANGED <<nreq, sqlite_sequence>>
    /\ putUpdate_id(p, handlers[p].req)

\* ------------------------------------------ DELETE /api/employees?id=
\* DELETE up to its first storage call: the id, then the lookup of the row
DELETE(p, r) ==
    /\ handlers[p].pc = "idle"
    /\ nreq < MaxRequests
    /\ nreq' = nreq + 1
    /\ IF invalidId(r.id) THEN Reply(p, r, 400, "INVALID_ID", NoRow)
       ELSE IF selectById(idOf(r)) = {}
       THEN Reply(p, r, 404, "EMPLOYEE_NOT_FOUND", NoRow)
       ELSE Suspend(p, "DELETE_delete", r, 0)
    /\ UNCHANGED <<employees, sqlite_sequence, clock>>

\* the delete without its where()
DELETE_delete_everyRow(p) ==
    LET r == handlers[p].req
    IN /\ handlers[p].pc = "DELETE_delete"
       /\ employees' = {}
       /\ Reply(p, r, 200, "", first(selectById(idOf(r))))
       /\ UNCHANGED <<nreq, sqlite_sequence, clock>>

\* delete().where(eq(employees.id, id)).returning(), then the answer: 200
\* with deletedEmployee[0], whatever it is
DELETE_delete(p) ==
    LET r == handlers[p].req
        deletedEmployee == selectById(idOf(r))
    IN /\ handlers[p].pc = "DELETE_delete"
       /\ employees' = employees \ deletedEmployee
       /\ Reply(p, r, 200, "", first(deletedEmployee))
       /\ UNCHANGED <<nreq, sqlite_sequence, clock>>

\* ------------------------------------------ DELETE /api/employees/[id]
DELETE_id(p, r) ==
    /\ handlers[p].pc = "idle"
    /\ nreq < MaxRequests
    /\ nreq' = nreq + 1
    /\ IF invalidId(r.id) THEN Reply(p, r, 400, "INVALID_ID", NoRow)
       ELSE IF selectById(idOf(r)) = {}
       THEN Reply(p, r, 404, "EMPLOYEE_NOT_FOUND", NoRow)
       ELSE Suspend(p, "DELETE_id_delete", r, 0)
    /\ UNCHANGED <<employees, sqlite_sequence, clock>>

\* the delete, then the answer: DELETE_FAILED when no row was deleted
DELETE_id_delete(p) ==
    LET r == handlers[p].req
        deleted == selectById(idOf(r))
    IN /\ handlers[p].pc = "DELETE_id_delete"
       /\ employees' = employees \ deleted
       /\ IF deleted = {}
          THEN Reply(p, r, 500, "DELETE_FAILED", NoRow)
          ELSE Reply(p, r, 200, "", first(deleted))
       /\ UNCHANGED <<nreq, sqlite_sequence, clock>>

\* ----------------------------------------------- GET, a single record
\* the answer of a read by id: one storage call
getById(r) ==
    IF invalidId(r.id)
    THEN Response("", r, 400, "INVALID_ID", NoRow)
    ELSE IF selectById(idOf(r)) = {}
    THEN Response("", r, 404, "EMPLOYEE_NOT_FOUND", NoRow)
    ELSE Response("", r, 200, "", first(selectById(idOf(r))))

\* x || d, for a parameter x and a default text d
orDefault(x, d) == IF Falsy(x) THEN d ELSE x.s

\* Math.min(a, b) of a parsed number and a number: NaN when a is
mathMin(a, b) == IF a.nan THEN NaN ELSE Parsed(IF a.n < b THEN a.n ELSE b)

\* Math.min(parseInt(searchParams.get('limit') || '10'), 100)
limitOf(q) == mathMin(parseInt(orDefault(q.limit, <<"1", "0">>)), 100)

\* parseInt(searchParams.get('offset') || '0')
offsetOf(q) == parseInt(orDefault(q.offset, <<"0">>))

\* text LIKE pattern, as SQLite has it: % stands for any text, _ for any one
\* character, and letters match whatever their case
RECURSIVE like(_, _)
like(text, pattern) ==
    IF pattern = <<>> THEN text = <<>>
    ELSE IF Head(pattern) = "%"
    THEN like(text, Tail(pattern)) \/ (text # <<>> /\ like(Tail(text), pattern))
    ELSE /\ text # <<>>
         /\ Head(pattern) = "_" \/ lowerChar(Head(text)) = lowerChar(Head(pattern))
         /\ like(Tail(text), Tail(pattern))

\* and(...conditions) on a row: the search over five columns, the department
conditions(q, e) ==
    /\ Falsy(q.search)
       \/ \E f \in {"firstName", "lastName", "email", "position", "department"} :
             like(e[f].s, <<"%">> \o q.search.s \o <<"%">>)
    /\ Falsy(q.department) \/ e.department = q.department

\* the rows of a set in the order of a scan of the table: by id
RECURSIVE scan(_)
scan(rows) ==
    IF rows = {} THEN <<>>
    ELSE LET e == CHOOSE e \in rows : \A x \in rows : e.id <= x.id
         IN <<e>> \o scan(rows \ {e})

\* a LIMIT or OFFSET clause of the statement, or none
Clause(n) == [has |-> TRUE, n |-> n]
NoClause == [has |-> FALSE, n |-> 0]

\* .limit(limit): the clause the query builder writes. A positive limit is
\* written; NaN is not; zero and negative limits are written or left out as
\* the builder's version has it.
limitClauses(limit) ==
    IF limit.nan THEN {NoClause}
    ELSE IF limit.n > 0 THEN {Clause(limit.n)}
    ELSE {Clause(limit.n), NoClause}

\* .offset(offset): written unless zero or NaN
offsetClause(offset) == IF offset.nan \/ offset.n = 0 THEN NoClause ELSE Clause(offset.n)

\* SQLite has no OFFSET without a LIMIT: the statement is refused
refused(limit, offset) == ~limit.has /\ offset.has

\* rows SQLite returns of n that satisfy the conditions: a negative LIMIT
\* and no LIMIT bound nothing, a negative OFFSET skips nothing
pageSize(n, limit, offset) ==
    LET skipped == IF offset.has /\ offset.n > 0 THEN offset.n ELSE 0
        rest == IF n > skipped THEN n - skipped ELSE 0
    IN IF ~limit.has \/ limit.n < 0 THEN rest
       ELSE IF limit.n < rest THEN limit.n ELSE rest

\* the rows of a statement whose OFFSET is lost
page_offsetIgnored(rows, limit, offset) ==
    SubSeq(rows, 1, pageSize(Len(rows), limit, offset))

\* the rows a statement returns of those that satisfy the conditions
page(rows, limit, offset) ==
    LET size == pageSize(Len(rows), limit, offset)
        skipped == IF offset.has /\ offset.n > 0 THEN offset.n ELSE 0
    IN SubSeq(rows, skipped + 1, skipped + size)

\* the list branch of GET: the answers it can give
getList(r) ==
    LET q == r.query
        rows == scan({e \in employees : conditions(q, e)})
    IN {IF refused(limit, offsetClause(offsetOf(q)))
        THEN Response("", r, 500, "", NoRow)
        ELSE [Response("", r, 200, "", NoRow)
                EXCEPT !.list = page(rows, limit, offsetClause(offsetOf(q)))] :
        limit \in limitClauses(limitOf(q))}

\* GET /api/employees: by id when the id parameter is not empty, else the list
GET(r) ==
    /\ nreq < MaxRequests
    /\ nreq' = nreq + 1
    /\ resp' \in (IF Falsy(r.id) THEN getList(r) ELSE {getById(r)})
    /\ UNCHANGED <<employees, sqlite_sequence, clock, handlers>>

\* the item route's read with an id of digits alone taken for valid
getById_id_digitsOnly(r) ==
    IF Falsy(r.id) \/ \E i \in 1..Len(r.id.s) : r.id.s[i] \notin Digits
    THEN Response("", r, 400, "INVALID_ID", NoRow)
    ELSE IF selectById(idOf(r)) = {}
    THEN Response("", r, 404, "EMPLOYEE_NOT_FOUND", NoRow)
    ELSE Response("", r, 200, "", first(selectById(idOf(r))))

\* the answer of the item route's read: one storage call
getById_id(r) ==
    IF invalidId(r.id)
    THEN Response("", r, 400, "INVALID_ID", NoRow)
    ELSE IF selectById(idOf(r)) = {}
    THEN Response("", r, 404, "EMPLOYEE_NOT_FOUND", NoRow)
    ELSE Response("", r, 200, "", first(selectById(idOf(r))))

\* GET /api/employees/[id]
GET_id(r) ==
    /\ nreq < MaxRequests
    /\ nreq' = nreq + 1
    /\ resp' = getById_id(r)
    /\ UNCHANGED <<employees, sqlite_sequence, clock, handlers>>

\* --------------------------------------------------------- inputs
\* The strings requests are built from.
Jo == <<"J", "o">>
Ed == <<"E", "d">>
Doe == <<"D", "o", "e">>
Dev == <<"D", "e", "v">>
Eng == <<"E", "n", "g">>
Ops == <<"O", "p", "s">>
Blank == <<" ">>
Padded(chars) == <<" ">> \o chars \o <<" ", "\t">>
emailA == <<"a", "@", "b", ".", "c">>
emailAUpper == <<"A", "@", "B", ".", "c">>
emailX == <<"x", "@", "b", ".", "c">>
emailNoAt == <<"a", "b", ".", "c">>
\* 2023-01-01T00:00:00.000Z
isoDate == <<"2", "0", "2", "3", "-", "0", "1", "-", "0", "1", "T",
             "0", "0", ":", "0", "0", ":", "0", "0", ".", "0", "0", "0", "Z">>
\* 2024-01-01T00:00:00.000Z
isoDate2 == [isoDate EXCEPT ![4] = "4"]
\* 2023-01-01T00:00:00X000Z
isoDateNoDot == [isoDate EXCEPT ![20] = "X"]
\* 2023-01-01
dateOnly == SubSeq(isoDate, 1, 10)
phone55 == <<"5", "5">>

\* a valid body
John == Body(Str(Jo), Str(Doe), Str(emailA), Str(Dev), Str(Eng), Num(75),
             Str(isoDate), Str(phone55))

With(b, f, v) == [b EXCEPT ![f] = v]
Only(f, v) == [NoBody EXCEPT ![f] = v]

RequiredStrings == {"firstName", "lastName", "email", "position", "department",
                    "hireDate"}

\* bodies POST accepts: the same person under three spellings of one
\* email, and under another email
ValidBodies ==
    { John,
      [John EXCEPT !.firstName = Str(Padded(Jo)), !.email = Str(Padded(emailAUpper)),
                   !.phone = Str(Blank)],
      [John EXCEPT !.email = Str(emailX), !.phone = Undefined] }

MissingValues == {Undefined, Str(<<>>), Str(Blank)}

\* bodies with one rule broken
BrokenBodies ==
    {With(John, f, v) : f \in RequiredStrings, v \in MissingValues}
    \cup {With(John, "salary", v) : v \in {Undefined, Null, Num(0), Str(phone55)}}
    \cup {With(John, "email", Str(emailNoAt)), With(John, "hireDate", Str(dateOnly)),
          With(John, "firstName", Num(5)), With(John, "phone", Num(5))}

\* bodies with two rules broken, and broken bodies that also repeat an email
TwiceBrokenBodies ==
    {With(With(John, f, Undefined), g, Str(Blank)) :
        f \in {"firstName", "email", "salary"}, g \in {"lastName", "position", "hireDate"}}
    \cup {With(With(John, "email", Str(emailNoAt)), "position", Undefined),
          With(With(John, "salary", Num(0)), "hireDate", Str(dateOnly))}

\* bodies whose email or hire date is short of the shape section 4.1 asks for
LooseBodies ==
    {With(John, "hireDate", Str(isoDateNoDot)), With(John, "email", Str(<<"a", "@">>))}

id1 == Str(<<"1">>)
id2 == Str(<<"2">>)
id9 == Str(<<"9">>)
idAbc == Str(<<"a", "b", "c">>)
id1x == Str(<<"1", "x">>)

\* partial bodies PUT accepts on the collection route: each field alone
ValidChanges ==
    {Only(f, Str(Padded(Ed))) : f \in {"firstName", "lastName", "position", "department"}}
    \cup {Only("email", Str(Padded(emailAUpper))), Only("email", Str(emailX)),
          Only("salary", Num(80)), Only("hireDate", Str(isoDate2)),
          Only("phone", Str(Padded(phone55))), Only("phone", Null), NoBody}

\* partial bodies with a rule broken
BrokenChanges ==
    {Only(f, Str(Blank)) : f \in {"firstName", "lastName", "email", "position",
                                  "department"}}
    \cup {Only("email", Str(emailNoAt)), Only("salary", Num(-10)),
          Only("hireDate", Str(dateOnly)),
          [NoBody EXCEPT !.salary = Num(-10), !.firstName = Str(Ed)]}

Post(bodies) == {Request("POST", "collection", Null, b) : b \in bodies}
Put(route, ids, bodies) == {Request("PUT", route, id, b) : id \in ids, b \in bodies}
Delete(route, ids) == {Request("DELETE", route, id, NoBody) : id \in ids}
Get(route, ids) == {Request("GET", route, id, NoBody) : id \in ids}

Alphabet(post, put, put_id, delete, delete_id, get, get_id) ==
    [POST |-> post, PUT |-> put, PUT_id |-> put_id, DELETE |-> delete,
     DELETE_id |-> delete_id, GET |-> get, GET_id |-> get_id,
     requests |-> FewRequests]

\* Requests of every kind, few of each: creations under equal and different
\* emails, changes of email, deletions and reads.
Requests ==
    LET changes == {Only("email", Str(Padded(emailAUpper))), Only("email", Str(emailX)),
                    Only("firstName", Str(Blank)), Only("hireDate", Str(dateOnly))}
    IN Alphabet(Post(ValidBodies), Put("collection", {id1, id2}, changes),
                Put("item", {id1, id2}, changes), Delete("collection", {id1}),
                Delete("item", {id1}), Get("collection", {id1}), Get("item", {id1}))

\* Creations of every kind, and one request of each other kind.
Creations ==
    LET change == {Only("email", Str(emailX))}
    IN Alphabet(Post({John} \cup BrokenBodies \cup TwiceBrokenBodies),
                Put("collection", {id1}, change), Put("item", {id1}, change),
                Delete("collection", {id1}), Delete("item", {id1}),
                Get("collection", {id1}), Get("item", {id1}))

\* Creations whose email or hire date is nearly of the shape asked for, and
\* one request of each other kind.
Shapes ==
    LET change == {Only("email", Str(emailX))}
    IN Alphabet(Post({John} \cup LooseBodies),
                Put("collection", {id1}, change), Put("item", {id1}, change),
                Delete("collection", {id1}), Delete("item", {id1}),
                Get("collection", {id1}), Get("item", {id1}))

\* Changes PUT accepts, to the first record of two, and one request of each
\* other kind. The item route treats every text field but email alike, so one
\* of them stands for the rest there.
Modifications ==
    LET same == {Only(f, Str(Padded(Ed))) : f \in {"lastName", "position", "department"}}
        padded == {Only("hireDate", Str(Padded(isoDate2)))}
    IN
    Alphabet(Post({John, With(John, "email", Str(emailX))}),
             Put("collection", {id1}, ValidChanges),
             Put("item", {id1}, (ValidChanges \ (same \cup {NoBody})) \cup padded),
             Delete("collection", {id1}), Delete("item", {id1}),
             Get("collection", {id1}), Get("item", {id1}))

\* Changes with a rule broken, changes and deletions of no record or of an
\* id that does not parse, and one request of each other kind.
Refusals ==
    LET changes == BrokenChanges \cup {Only("email", Str(emailX))}
                    \cup {Only("salary", v) : v \in {Num(0), Null, Str(phone55)}}
        salary == {Only("salary", Num(-10))}
    IN Alphabet(Post({John, With(John, "salary", Num(0))}),
                Put("collection", {id1}, changes)
                    \cup Put("collection", {id9, idAbc, Null}, salary),
                Put("item", {id1}, changes) \cup Put("item", {id9, idAbc}, salary),
                Delete("collection", {id1, id9, idAbc}), Delete("item", {id1, id9, idAbc}),
                Get("collection", {id1}), Get("item", {id1}))

\* a list read
List(limit, offset, search, department) ==
    [Request("GET", "collection", Null, NoBody)
       EXCEPT !.query = Query(limit, offset, search, department)]

emailJ == <<"j", "@", "b", ".", "c">>
\* Jo Doe of Eng, Ed Doe of Ops, Jo Ed of Eng
Staff ==
    { John,
      [John EXCEPT !.firstName = Str(Ed), !.email = Str(emailX), !.department = Str(Ops)],
      [John EXCEPT !.lastName = Str(Ed), !.email = Str(emailJ)] }

Text1 == Str(<<"1">>)
Text2 == Str(<<"2">>)
Minus1 == Str(<<"-", "1">>)

\* list reads: every kind of limit, pages, searches, departments
Lists ==
    {List(limit, Null, Null, Null) :
        limit \in {Null, Text1, Text2, Str(<<"0">>), Minus1, Str(<<"a", "b", "c">>),
                   Str(<<"1", "0", "1">>)}}
    \cup {List(Text1, Text1, Null, Null), List(Text1, Text2, Null, Null),
          List(Text2, Text2, Null, Null), List(Minus1, Text1, Null, Null),
          List(Null, Minus1, Null, Null), List(Text1, Text1, Null, Str(Eng))}
    \cup {List(Null, Null, Str(search), Null) :
            search \in {<<>>, <<"j", "o">>, <<"_">>, <<"@">>, <<"z">>}}
    \cup {List(Null, Null, Null, Str(Eng)), List(Null, Null, Null, Str(<<"e", "n", "g">>)),
          List(Null, Null, Str(<<"d">>), Str(Eng))}

\* List reads and reads by ids of every kind, one change of department and
\* email, and one request of each other kind.
Listings ==
    LET change == {[NoBody EXCEPT !.department = Str(Ops), !.email = Str(emailX)]}
        ids == {id1, id9, idAbc, id1x}
    IN Alphabet(Post(Staff),
                Put("collection", {id1}, change), Put("item", {id1}, change),
                Delete("collection", {id1}), Delete("item", {id1}),
                Lists \cup Get("collection", ids \cup {Str(<<>>)}), Get("item", ids))

\* A table of up to three records read page by page, and one request of each
\* other kind.
Pagings ==
    LET change == {[NoBody EXCEPT !.department = Str(Ops), !.email = Str(emailX)]}
        pages == {List(Text1, Text1, Null, Null), List(Text2, Text2, Null, Null),
                  List(Text1, Text1, Null, Str(Eng))}
    IN Alphabet(Post(Staff),
                Put("collection", {id1}, change), Put("item", {id1}, change),
                Delete("collection", {id1}), Delete("item", {id1}),
                pages \cup Get("collection", {id1}), Get("item", {id1}))

\* The life of a record: creations, one change, deletions and reads by id,
\* in behaviours long enough to create again after a deletion and then ask
\* for the deleted id. The creations share an email, so that the second
\* succeeds only once the first record is deleted or has another email.
Lifecycle ==
    LET change == {[NoBody EXCEPT !.salary = Num(80), !.email = Str(emailX)]}
        other == {Only("lastName", Str(Padded(Ed)))}
        A == Alphabet(Post({John, With(John, "firstName", Str(Ed))}),
                      Put("collection", {id1}, change),
                      Put("item", {id1}, change \cup other),
                      Delete("collection", {id1}), Delete("item", {id1}),
                      Get("collection", {id1}), Get("item", {id1}))
    IN [A EXCEPT !.requests = MaxRequests]

\* ------------------------------------------------- the state machine
\* an empty table, no request in flight
Init ==
    /\ employees = {}
    /\ sqlite_sequence = 0
    /\ clock = 0
    /\ handlers = [p \in Procs |-> Idle]
    /\ resp = Response("", NoRequest, 0, "", NoRow)
    /\ nreq = 0

\* the requests of a kind that may still arrive
Arriving(A, kind) == IF nreq < A.requests THEN A[kind] ELSE {}

NextOn(A) ==
    \/ \E p \in Procs, r \in Arriving(A, "POST") : POST(p, r)
    \/ \E p \in Procs : POST_insert(p)
    \/ \E p \in Procs, r \in Arriving(A, "PUT") : PUT(p, r)
    \/ \E p \in Procs : PUT_json(p)
    \/ \E p \in Procs : PUT_update(p)
    \/ \E p \in Procs, r \in Arriving(A, "PUT_id") : PUT_id(p, r)
    \/ \E p \in Procs : PUT_id_json(p)
    \/ \E p \in Procs : PUT_id_update(p)
    \/ \E p \in Procs, r \in Arriving(A, "DELETE") : DELETE(p, r)
    \/ \E p \in Procs : DELETE_delete(p)
    \/ \E p \in Procs, r \in Arriving(A, "DELETE_id") : DELETE_id(p, r)
    \/ \E p \in Procs : DELETE_id_delete(p)
    \/ \E r \in Arriving(A, "GET") : GET(r)
    \/ \E r \in Arriving(A, "GET_id") : GET_id(r)

\* every kind of request, interleaved
Spec == Init /\ [][NextOn(Requests)]_vars
\* the validation of POST
SpecCreate == Init /\ [][NextOn(Creations)]_vars
\* the effect of PUT
SpecShape == Init /\ [][NextOn(Shapes)]_vars

SpecUpdate == Init /\ [][NextOn(Modifications)]_vars
\* the validation of PUT
SpecRefuse == Init /\ [][NextOn(Refusals)]_vars
\* creation, deletion and creation again
SpecLife == Init /\ [][NextOn(Lifecycle)]_vars
\* list reads
SpecList == Init /\ [][NextOn(Listings)]_vars
\* list reads page by page
SpecPages == Init /\ [][NextOn(Pagings)]_vars

\* ------------------------------------------------------------ claims
\* the step is an answer of handler p (to the request resp'.req)
Answers(p) ==
    /\ resp'.by = p
    /\ handlers'[p].pc = "idle"
    /\ handlers[p].pc # "idle" \/ nreq' = nreq + 1
    /\ \A q \in Procs \ {p} : handlers'[q] = handlers[q]

\* the request handler p holds or has answered after the step: when the step
\* is the first step of a request by p, that request
Begun(p) == IF handlers'[p].pc # "idle" THEN handlers'[p].req ELSE resp'.req

\* the rows whose email is this string, letter case and outer white space
\* aside
withEmail(rows, chars) ==
    {e \in rows : toLowerCase(trim(e.email.s)) = toLowerCase(trim(chars))}

\* handler p is suspended at the insert of a POST whose email is that of q's
InsertsEmailOf(p, q) ==
    /\ handlers[p].pc = "POST_insert"
    /\ handlers[q].pc = "POST_insert"
    /\ toLowerCase(trim(handlers[p].req.body.email.s))
         = toLowerCase(trim(handlers[q].req.body.email.s))

\* C1: in every reachable state no two stored records have the same email,
\* letter case aside.
C1_EmailsUnique ==
    \A e \in employees : \A f \in employees :
        toLowerCase(e.email.s) = toLowerCase(f.email.s) => e = f

\* C1 witness: a second record is stored, and the last answer is the refusal
\* of a write that would have given a record the email of another.
C1_Witness ==
    /\ Cardinality(employees) = 2
    /\ resp.req.method \in {"POST", "PUT"}
    /\ resp.status \in {400, 500}
    /\ \E e \in withEmail(employees, resp.req.body.email.s) : e.id # idOf(resp.req)

\* C2: of two POSTs with one normalized email that are both past the email
\* lookup, the first to insert is answered 201 and leaves one record with the
\* email; the other, inserting when the email is stored, is answered 500
\* without an error code and leaves the table as it was.
C2_RaceOfCreates ==
    [][\A p \in Procs :
         LET email == handlers[p].req.body.email.s
         IN /\ (\E q \in Procs \ {p} : InsertsEmailOf(p, q)) /\ Answers(p)
                => /\ resp'.status = 201
                   /\ Cardinality(withEmail(employees', email)) = 1
                   /\ \A q \in Procs \ {p} : handlers'[q].pc = "POST_insert"
            /\ handlers[p].pc = "POST_insert" /\ withEmail(employees, email) # {}
                 /\ Answers(p)
                => /\ resp'.status = 500
                   /\ resp'.code = ""
                   /\ employees' = employees
                   /\ Cardinality(withEmail(employees', email)) = 1]_vars

\* C2 witness: a POST was answered 500 without a code, and one record holds
\* its email: the loser of the race.
C2_Witness ==
    /\ resp.req.method = "POST"
    /\ resp.status = 500
    /\ resp.code = ""
    /\ Cardinality(withEmail(employees, resp.req.body.email.s)) = 1

\* YYYY-MM-DDTHH:MM:SS.mmmZ
isoShape == [dateRegexShape EXCEPT ![20] = "."]
isoDateTime(x) ==
    /\ IsString(x)
    /\ Len(x.s) = Len(isoShape)
    /\ \A i \in 1..Len(x.s) : matchesAt(isoShape[i], x.s[i])

\* a string with something in it besides white space
Text(x) == IsString(x) /\ trim(x.s) # <<>>

\* a body every rule of section 4.1 accepts
Valid(b) ==
    /\ \A f \in {"firstName", "lastName", "email", "position", "department"} : Text(b[f])
    /\ includes(b.email.s, "@")
    /\ b.salary.t = "number" /\ b.salary.n > 0
    /\ isoDateTime(b.hireDate)
    /\ b.phone.t \in {"undefined", "null", "string"}

\* C3: a POST of a valid body whose email, trimmed and lower-cased, is the
\* email of a stored record is answered 400 EMAIL_EXISTS at once and leaves
\* the table as it was, whatever the letter case of its email.
C3_DuplicateEmailRefused ==
    [][\A p \in Procs :
         LET r == Begun(p)
         IN Valid(r.body) /\ withEmail(employees, r.body.email.s) # {} /\ POST(p, r)
            => /\ resp' = Response(p, r, 400, "EMAIL_EXISTS", NoRow)
               /\ handlers'[p].pc = "idle"
               /\ employees' = employees]_vars

\* C3 witness: the POST of " A@B.c " was answered EMAIL_EXISTS, "a@b.c" being
\* stored.
C3_Witness ==
    /\ resp.req.method = "POST"
    /\ resp.req.body.email = Str(Padded(emailAUpper))
    /\ resp.status = 400 /\ resp.code = "EMAIL_EXISTS"
    /\ \E e \in employees : e.email = Str(emailA)

\* String(n), n a natural number
RECURSIVE decimal(_)
decimal(n) ==
    IF n < 10 THEN <<DigitChars[n + 1]>>
    ELSE decimal(n \div 10) \o <<DigitChars[(n % 10) + 1]>>

\* the fields of a body as section 3 has them stored: text trimmed, the email
\* lower-cased too, a phone that is absent, null or empty stored as null
Sanitized(b, f) ==
    CASE f = "email" -> Str(toLowerCase(trim(b.email.s)))
      [] f = "phone" -> IF b.phone.t \in {"undefined", "null"} \/ b.phone.s = <<>>
                        THEN Null ELSE Str(trim(b.phone.s))
      [] f \in {"salary", "hireDate"} -> b[f]
      [] OTHER -> Str(trim(b[f].s))

\* the two reads by id of the record a 201 answer (the next state's resp)
\* returns, made in the next state
ReadsBack ==
    {(getById(Request("GET", route, Str(decimal(resp.data.id)), NoBody)))' :
        route \in {"collection", "item"}}

MissingCode ==
    [firstName |-> "MISSING_FIRST_NAME", lastName |-> "MISSING_LAST_NAME",
     email |-> "MISSING_EMAIL", position |-> "MISSING_POSITION",
     department |-> "MISSING_DEPARTMENT", salary |-> "MISSING_SALARY",
     hireDate |-> "MISSING_HIRE_DATE"]

\* the ways a required field is missing
Missing(f) == IF f = "salary" THEN {Undefined, Null} ELSE MissingValues

\* C5: a POST of a valid body with one required field made absent (or empty,
\* or blank, or null for the salary) is answered 400 with the MISSING_ code of
\* that field at once, and the table is left as it was.
C5_MissingFieldRefused ==
    [][\A p \in Procs : \A f \in DOMAIN MissingCode :
         LET r == Begun(p)
         IN r.body \in {With(John, f, v) : v \in Missing(f)} /\ POST(p, r)
            => /\ resp' = Response(p, r, 400, MissingCode[f], NoRow)
               /\ handlers'[p].pc = "idle"
               /\ employees' = employees]_vars

\* C5 witness: a POST with a null salary was answered MISSING_SALARY, and
\* one with a blank hire date could be answered MISSING_HIRE_DATE.
C5_Witness ==
    /\ resp.req.method = "POST"
    /\ resp.status = 400
    /\ \/ resp.req.body.salary = Null /\ resp.code = "MISSING_SALARY"
       \/ resp.req.body.hireDate = Str(Blank) /\ resp.code = "MISSING_HIRE_DATE"
    /\ Valid(With(With(resp.req.body, "salary", Num(1)), "hireDate", Str(isoDate)))

\* a required text field that is absent: undefined, null, empty or blank
Absent(x) == x.t \in {"undefined", "null"} \/ (IsString(x) /\ trim(x.s) = <<>>)

\* whether a body breaks the rule an error code names, the table as it is.
\* The hire date's pattern is taken as the code has it.
Breaks(b, code) ==
    CASE code = "MISSING_FIRST_NAME" -> Absent(b.firstName)
      [] code = "MISSING_LAST_NAME" -> Absent(b.lastName)
      [] code = "MISSING_EMAIL" -> Absent(b.email)
      [] code = "INVALID_EMAIL_FORMAT" -> ~includes(b.email.s, "@")
      [] code = "EMAIL_EXISTS" -> withEmail(employees, b.email.s) # {}
      [] code = "MISSING_POSITION" -> Absent(b.position)
      [] code = "MISSING_DEPARTMENT" -> Absent(b.department)
      [] code = "MISSING_SALARY" -> b.salary.t \in {"undefined", "null"}
      [] code = "INVALID_SALARY" -> b.salary.t # "number" \/ b.salary.n <= 0
      [] code = "MISSING_HIRE_DATE" -> Absent(b.hireDate)
      [] code = "INVALID_HIRE_DATE_FORMAT" -> ~dateRegexTest(b.hireDate.s)

\* the first rule of an order that a body breaks, "" when it breaks none
FirstBroken(b, order) ==
    LET broken == {i \in 1..Len(order) : Breaks(b, order[i])}
    IN IF broken = {} THEN ""
       ELSE order[CHOOSE i \in broken : \A j \in broken : i <= j]

\* the order of the claim: uniqueness among the email's rules
ClaimedOrder ==
    <<"MISSING_FIRST_NAME", "MISSING_LAST_NAME", "MISSING_EMAIL",
      "INVALID_EMAIL_FORMAT", "EMAIL_EXISTS", "MISSING_POSITION",
      "MISSING_DEPARTMENT", "MISSING_SALARY", "INVALID_SALARY",
      "MISSING_HIRE_DATE", "INVALID_HIRE_DATE_FORMAT">>

\* the order of the code: uniqueness last
CodeOrder ==
    <<"MISSING_FIRST_NAME", "MISSING_LAST_NAME", "MISSING_EMAIL",
      "INVALID_EMAIL_FORMAT", "MISSING_POSITION", "MISSING_DEPARTMENT",
      "MISSING_SALARY", "INVALID_SALARY", "MISSING_HIRE_DATE",
      "INVALID_HIRE_DATE_FORMAT", "EMAIL_EXISTS">>

\* a body whose text fields are text or absent
TextOrAbsent(b) == \A f \in RequiredStrings : b[f].t # "number"

\* a POST whose body breaks a rule is answered 400 with the code of the first
\* rule of the order it breaks, and one that breaks none goes on to insert
AnswersFirstOf(order) ==
    \A p \in Procs :
        LET r == Begun(p)
            code == FirstBroken(r.body, order)
        IN r.method = "POST" /\ TextOrAbsent(r.body) /\ POST(p, r)
           => IF code = "" THEN handlers'[p].pc = "POST_insert"
              ELSE resp' = Response(p, r, 400, code, NoRow)

\* C6 as amended: the one error of a POST is that of the first rule broken in
\* the order first name, last name, email (presence, then '@'), position,
\* department, salary, hire date, and last the email's uniqueness.
C6_FirstFailureWins == [][AnswersFirstOf(CodeOrder)]_vars

\* C6 as claimed: the email's uniqueness is checked with the email's other
\* rules, before position.
C6_UniquenessWithEmail == [][AnswersFirstOf(ClaimedOrder)]_vars

\* C6 witness: a POST that repeats a stored email and has no position was
\* answered MISSING_POSITION.
C6_Witness ==
    /\ resp.req.method = "POST"
    /\ resp.status = 400 /\ resp.code = "MISSING_POSITION"
    /\ withEmail(employees, resp.req.body.email.s) # {}

\* handler p is suspended at a step of a PUT
InPut(h) == h.pc \in {"PUT_json", "PUT_update", "PUT_id_json", "PUT_id_update"}

\* the step is one of a PUT that handler p is suspended in
PutStep(p) == PUT_json(p) \/ PUT_update(p) \/ PUT_id_json(p) \/ PUT_id_update(p)

\* C7: a PUT (either route) answered 200 leaves every other record as it
\* was, adds and removes none, and leaves its record's id, createdAt and
\* every field the body does not name as they were.
C7_UpdateFrame ==
    [][\A p \in Procs :
         PutStep(p) /\ handlers'[p].pc = "idle" /\ resp'.status = 200
         => LET id == idOf(handlers[p].req)
                b == handlers[p].req.body
            IN /\ {e \in employees : e.id # id} = {e \in employees' : e.id # id}
               /\ Cardinality(employees') = Cardinality(employees)
               /\ \A e \in employees : e.id = id =>
                    \E u \in employees' :
                       /\ u.id = id
                       /\ u.createdAt = e.createdAt
                       /\ \A f \in Fields : ~Defined(b[f]) => u[f] = e[f]]_vars

\* C7 witness: a PUT of a salary alone was answered 200 with the record, a
\* second record is stored, and the record's updatedAt has left its createdAt.
C7_Witness ==
    /\ resp.req.method = "PUT"
    /\ resp.req.body = Only("salary", Num(80))
    /\ resp.status = 200
    /\ resp.data \in employees
    /\ resp.data.salary = Num(80) /\ resp.data.phone = Str(phone55)
    /\ resp.data.updatedAt # resp.data.createdAt
    /\ Cardinality(employees) = 2

\* C8: a PUT (either route) answered 400 or 404 has changed nothing in the
\* table: the step that answers leaves the table as it was, and so does every
\* step at which a PUT is suspended for its next storage call.
C8_RefusedUpdateChangesNothing ==
    [][\A p \in Procs :
         /\ Answers(p) /\ resp'.req.method = "PUT" /\ resp'.status \in {400, 404}
            => employees' = employees
         /\ InPut(handlers'[p]) /\ handlers'[p] # handlers[p]
            => employees' = employees]_vars

\* C8 witness: a PUT of salary -10 to a stored record was answered 400
\* INVALID_SALARY, and the record has its salary.
C8_Witness ==
    /\ resp.req.method = "PUT"
    /\ resp.req.body.salary = Num(-10)
    /\ resp.status = 400 /\ resp.code = "INVALID_SALARY"
    /\ \E e \in employees : e.id = idOf(resp.req) /\ e.salary = Num(75)

\* C9: every stored record has a first name, last name, email, position and
\* department that are not empty, and a hire date of the form
\* YYYY-MM-DDTHH:MM:SS.mmmZ.
C9_StoredFieldsValid ==
    \A e \in employees :
        /\ \A f \in {"firstName", "lastName", "email", "position", "department"} :
              IsString(e[f]) /\ e[f].s # <<>>
        /\ isoDateTime(e.hireDate)

\* a body with a name, email, position or department that is empty once
\* trimmed, or a hire date that is no ISO date-time
BadChange(b) ==
    \/ \E f \in {"firstName", "lastName", "email", "position", "department"} :
          IsString(b[f]) /\ trim(b[f].s) = <<>>
    \/ IsString(b.hireDate) /\ ~isoDateTime(b.hireDate)

\* the answers of PUTs on a route to such bodies, the record found, are 400
\* with an error code, and leave the table as it was
RefusesBadChanges(route) ==
    \A p \in Procs :
        /\ Answers(p) /\ InPut(handlers[p])
        /\ resp'.req.route = route /\ BadChange(resp'.req.body)
        => /\ resp'.status = 400
           /\ resp'.code # ""
           /\ employees' = employees

\* C10: an update (either route) whose body has a first name, last name,
\* email, position or department that is empty once trimmed, or a hire date
\* that is no ISO date-time, is answered 400 with an error code and changes
\* nothing.
C10_BadChangeRefused ==
    [][RefusesBadChanges("collection") /\ RefusesBadChanges("item")]_vars

\* a stored value that is text has no white space at either end
Trimmed(x) == IsString(x) => trim(x.s) = x.s

\* C11: in every reachable state every stored first name, last name, email,
\* position, department, hire date and phone has no white space at either
\* end, and every stored email is lower-case.
C11_StoredStringsTrimmed ==
    \A e \in employees :
        /\ \A f \in {"firstName", "lastName", "email", "position", "department",
                     "hireDate", "phone"} : Trimmed(e[f])
        /\ IsString(e.email) /\ toLowerCase(e.email.s) = e.email.s

\* C12: in every reachable state every stored record has a salary that is a
\* number greater than zero.
C12_SalaryPositive ==
    \A e \in employees : e.salary.t = "number" /\ e.salary.n > 0

\* C12 witness: a PUT of salary 0 to a stored record was answered 400
\* INVALID_SALARY, and the record has the salary it was created with.
C12_Witness ==
    /\ resp.req.method = "PUT"
    /\ resp.req.body.salary = Num(0)
    /\ resp.status = 400 /\ resp.code = "INVALID_SALARY"
    /\ \E e \in employees : e.id = idOf(resp.req) /\ e.salary = Num(75)

\* the ids of deleted records: the ids the table gave and holds no more
Deleted == {i \in 1..sqlite_sequence : selectById(i) = {}}

\* the request that arrives at the step, NoRequest when none does
Arrived ==
    IF nreq' = nreq THEN NoRequest
    ELSE IF handlers' # handlers
    THEN handlers'[CHOOSE p \in Procs : handlers'[p] # handlers[p]].req
    ELSE resp'.req

\* C13: the id of a deleted record stays without a record whatever is
\* created, and a GET, PUT or DELETE (either route) that arrives with such
\* an id is answered 404 EMPLOYEE_NOT_FOUND.
C13_DeleteIsFinal ==
    [][/\ \A i \in Deleted : (selectById(i))' = {}
       /\ LET r == Arrived
          IN r.method \in {"GET", "PUT", "DELETE"} /\ ~invalidId(r.id)
             /\ idOf(r) \in Deleted
             => /\ handlers' = handlers
                /\ resp'.req = r
                /\ resp'.status = 404 /\ resp'.code = "EMPLOYEE_NOT_FOUND"]_vars

\* C13 witness: record 1 was deleted, record 2 is stored, and a GET of id 1
\* was answered 404.
C13_Witness ==
    /\ Deleted = {1}
    /\ selectById(2) # {}
    /\ resp.req.method = "GET" /\ resp.req.id = id1
    /\ resp.status = 404 /\ resp.code = "EMPLOYEE_NOT_FOUND"

\* the ids of the stored records
Ids(rows) == {e.id : e \in rows}

\* C14: a PUT (either route) leaves the ids of the stored records as they
\* were, and a record that enters the table has an id above every id the
\* table gave before, those of deleted records included.
C14_IdsNeverReused ==
    [][/\ \A p \in Procs : PutStep(p) => Ids(employees') = Ids(employees)
       /\ Ids(employees) \subseteq 1..sqlite_sequence
       /\ sqlite_sequence' >= sqlite_sequence
       /\ \A i \in Ids(employees') \ Ids(employees) :
             i > sqlite_sequence /\ i <= sqlite_sequence']_vars

\* C14 witness: record 1 was deleted, and the POST after that was answered
\* 201 with a record of id 2.
C14_Witness ==
    /\ Deleted = {1}
    /\ resp.req.method = "POST" /\ resp.status = 201
    /\ resp.data.id = 2 /\ resp.data \in employees

\* a list read: a GET of the collection without an id
IsList(r) == r.method = "GET" /\ r.route = "collection" /\ Falsy(r.id)

\* the numbers of rows a list read can return of n that satisfy its conditions
pageSizes(n, q) ==
    {pageSize(n, limit, offsetClause(offsetOf(q))) :
        limit \in {l \in limitClauses(limitOf(q)) : ~refused(l, offsetClause(offsetOf(q)))}}

\* C15: a list read answered 200 returns at most 100 records, whatever its
\* limit parameter and however many records satisfy its conditions.
C15_AtMostHundred ==
    IsList(resp.req) /\ resp.status = 200
    => /\ Len(resp.list) <= 100
       /\ \A n \in 0..MaxRows : \A size \in pageSizes(n, resp.req.query) : size <= 100

\* the pages of a table read with limit L at offsets 0, L, 2L, ... under a
\* search and a department, one after the other
RECURSIVE pagesFrom(_, _, _, _)
pagesFrom(k, L, search, department) ==
    IF k * L > Cardinality(employees) THEN <<>>
    ELSE LET answers == getList(List(Str(decimal(L)), Str(decimal(k * L)),
                                     search, department))
         IN (CHOOSE a \in answers : TRUE).list \o pagesFrom(k + 1, L, search, department)

\* the searches and departments the table is read under
Filters ==
    {Query(Null, Null, Null, Null), Query(Null, Null, Null, Str(Eng)),
     Query(Null, Null, Str(<<"j", "o">>), Null), Query(Null, Null, Str(<<"d">>), Str(Eng))}

\* C16: in every reachable state, list reads with one limit L and offsets
\* 0, L, 2L, ... under one search and department return, one after the
\* other, every record that satisfies them once and no other.
C16_PagesPartition ==
    \A L \in 1..MaxPage : \A f \in Filters :
        /\ \A k \in 0..Cardinality(employees) :
              LET answers == getList(List(Str(decimal(L)), Str(decimal(k * L)),
                                          f.search, f.department))
              IN Cardinality(answers) = 1 /\ \A a \in answers : a.status = 200
        /\ pagesFrom(0, L, f.search, f.department)
             = scan({e \in employees : conditions(f, e)})

\* C16 witness: of two stored records, a list read with limit 1 and offset
\* 1 was answered with the second alone.
C16_Witness ==
    /\ Cardinality(employees) = 2
    /\ resp.req = List(Text1, Text1, Null, Null)
    /\ resp.status = 200
    /\ resp.list = <<scan(employees)[2]>>

\* text a is part of text b, letter case aside
Substring(a, b) ==
    \E i \in 0..(Len(b) - Len(a)) :
        toLowerCase(SubSeq(b, i + 1, i + Len(a))) = toLowerCase(a)

\* a record satisfies a search and a department as the claim has them
Satisfies(e, q) ==
    /\ Falsy(q.search)
       \/ \E f \in {"firstName", "lastName", "email", "position", "department"} :
             Substring(q.search.s, e[f].s)
    /\ Falsy(q.department) \/ e.department.s = q.department.s

\* C17: a list read without limit and offset of a table of fewer than ten
\* records returns the records of which the search term is part of the
\* first name, last name, email, position or department (letter case aside)
\* and whose department is the one asked for, and no other record.
C17_ListFilters ==
    [][LET r == Arrived
       IN IsList(r) /\ Falsy(r.query.limit) /\ Falsy(r.query.offset)
          => /\ resp'.req = r /\ resp'.status = 200
             /\ {resp'.list[i] : i \in 1..Len(resp'.list)}
                  = {e \in employees : Satisfies(e, r.query)}]_vars

InvalidChange(b) ==
    \/ \E f \in {"firstName", "lastName", "email", "position", "department"} :
          Defined(b[f]) /\ ~Text(b[f])
    \/ Defined(b.email) /\ ~includes(b.email.s, "@")
    \/ Defined(b.salary) /\ ~(b.salary.t = "number" /\ b.salary.n > 0)
    \/ Defined(b.hireDate) /\ ~isoDateTime(b.hireDate)
    \/ b.phone.t = "number"

\* C19: a POST whose body breaks a rule, and a PUT (either route) to a stored
\* record whose body breaks a rule in a field it names, are answered 400 with
\* an error code, a text field that is a number or null included.
C19_InvalidNever500 ==
    [][\A p \in Procs :
         /\ Answers(p)
         /\ \/ resp'.req.method = "POST" /\ ~Valid(resp'.req.body)
            \/ InPut(handlers[p]) /\ InvalidChange(resp'.req.body)
         => resp'.status = 400 /\ resp'.code # ""]_vars

\* a PUT at the step of its email lookup, its body an email and no more
LooksUpEmail(p) ==
    /\ handlers[p].pc \in {"PUT_json", "PUT_id_json"}
    /\ IsString(handlers[p].req.body.email)
    /\ handlers[p].req.body = Only("email", handlers[p].req.body.email)
    /\ PUT_json(p) \/ PUT_id_json(p)

\* the stored records with an email, trimmed and lower-cased
holding(email) == {e \in employees : e.email = Str(toLowerCase(trim(email.s)))}

\* C20: a PUT (either route) of an email that, trimmed and lower-cased, is
\* the email of another record is answered 400 EMAIL_EXISTS by its lookup and
\* changes nothing; a PUT of the email its own record holds is not refused,
\* and its update is answered 200 with the record.
C20_EmailOnUpdate ==
    [][\A p \in Procs :
         LET r == handlers[p].req
             own == {e \in holding(r.body.email) : e.id = idOf(r)}
             other == {e \in holding(r.body.email) : e.id # idOf(r)}
         IN /\ LooksUpEmail(p) /\ other # {}
               => /\ resp' = Response(p, r, 400, "EMAIL_EXISTS", NoRow)
                  /\ employees' = employees
            /\ LooksUpEmail(p) /\ own # {}
               => handlers'[p].pc \in {"PUT_update", "PUT_id_update"}
            /\ /\ PUT_update(p) \/ PUT_id_update(p)
               /\ r.body = Only("email", r.body.email) /\ own # {}
               => /\ resp'.by = p /\ resp'.status = 200
                  /\ resp'.data \in employees' /\ resp'.data.id = idOf(r)
                  /\ resp'.data.email = Str(toLowerCase(trim(r.body.email.s)))]_vars

\* C20 witness: of two stored records, a PUT of the email of the second to
\* the first was answered 400 EMAIL_EXISTS.
C20_Witness ==
    /\ resp.req.method = "PUT" /\ resp.req.id = id1
    /\ resp.req.body = Only("email", Str(emailX))
    /\ resp.status = 400 /\ resp.code = "EMAIL_EXISTS"
    /\ \E e \in employees : e.id = 2 /\ e.email = Str(emailX)
    /\ \E e \in employees : e.id = 1 /\ e.email = Str(emailA)

\* C21: in every reachable state a stored phone is null or text that is not
\* empty and has no white space at either end.
C21_PhoneNullOrTrimmed ==
    \A e \in employees :
        \/ e.phone.t = "null"
        \/ IsString(e.phone) /\ e.phone.s # <<>> /\ trim(e.phone.s) = e.phone.s

\* a body that passes every rule but, perhaps, those of one field
ValidBut(b, f) == \E v \in {John[f]} : Valid([b EXCEPT ![f] = v])

\* C22: a POST of a body, valid but for its hire date, whose hire date is
\* text that has not the form YYYY-MM-DDTHH:MM:SS.mmmZ is answered 400
\* INVALID_HIRE_DATE_FORMAT and stores nothing.
C22_HireDateStrict ==
    [][\A p \in Procs :
         LET r == Begun(p)
         IN /\ r.method = "POST"
            /\ ValidBut(r.body, "hireDate")
            /\ Text(r.body.hireDate) /\ ~isoDateTime(r.body.hireDate)
            /\ POST(p, r)
            => /\ resp' = Response(p, r, 400, "INVALID_HIRE_DATE_FORMAT", NoRow)
               /\ employees' = employees]_vars

\* the places of a character in a text
places(s, c) == {i \in 1..Len(s) : s[i] = c}

\* an email of the shape local@domain.tld: one @ with text before it, and
\* after it a domain with a dot that has text on both sides
emailShape(s) ==
    /\ Cardinality(places(s, "@")) = 1
    /\ \E at \in places(s, "@") :
          /\ at > 1
          /\ \E dot \in places(s, ".") : dot > at + 1 /\ dot < Len(s)

\* C23: a POST of a body, valid but for its email, whose email is text that
\* has not the shape local@domain.tld is answered 400 INVALID_EMAIL_FORMAT.
C23_EmailShape ==
    [][\A p \in Procs :
         LET r == Begun(p)
         IN /\ r.method = "POST"
            /\ ValidBut(r.body, "email")
            /\ Text(r.body.email) /\ ~emailShape(trim(r.body.email.s))
            /\ POST(p, r)
            => resp' = Response(p, r, 400, "INVALID_EMAIL_FORMAT", NoRow)]_vars

\* the instant a PUT about to answer has read, or reads, from the clock
instantOf(p) ==
    IF handlers[p].pc = "PUT_update" THEN handlers[p].updatedAt ELSE clock'

DeleteStep(p) == DELETE_delete(p) \/ DELETE_id_delete(p)

\* C25: a DELETE (either route) whose delete statement finds the record of
\* its id is answered 200 with that record as the table held it just before,
\* and the table after it is the table before it less that one record.
C25_DeleteFrame ==
    [][\A p \in Procs :
         DeleteStep(p)
         => \A e \in selectById(idOf(handlers[p].req)) :
              /\ resp' = Response(p, handlers[p].req, 200, "", e)
              /\ employees' = employees \ {e}
              /\ Cardinality(employees') = Cardinality(employees) - 1]_vars

\* C25 witness: a DELETE of id 1 was answered 200 with the record as a PUT
\* had left it, the table holds no record of id 1, and record 2 is stored.
C25_Witness ==
    /\ resp.req.method = "DELETE" /\ resp.status = 200
    /\ resp.data.id = 1 /\ resp.data.email = Str(emailX)
    /\ resp.data.salary = Num(80)
    /\ selectById(1) = {}
    /\ selectById(2) # {}

\* the answers GET /employees?id=<id> can give in this state
byQuery(id) ==
    LET r == Request("GET", "collection", id, NoBody)
    IN IF Falsy(id) THEN getList(r) ELSE {getById(r)}

\* the answer GET /employees/{id} gives in this state
byPath(id) == getById_id(Request("GET", "item", id, NoBody))

\* ids a path segment can carry: text that is not empty
PathIds == {id1, id2, id9, idAbc, id1x, Str(Padded(<<"1">>)), Str(<<"-", "1">>)}

\* C26: in every reachable state and for every id a path can carry, the read
\* by path and the read by query have the same status, the same error code
\* and the same record.
C26_SameRead ==
    \A id \in PathIds : \A a \in byQuery(id) :
        /\ a.status = byPath(id).status
        /\ a.code = byPath(id).code
        /\ a.data = byPath(id).data
        /\ a.list = byPath(id).list

\* C26 witness: the read of id "1x" by path was answered 200 with record 1,
\* as stored, which is the answer of the read by query too.
C26_Witness ==
    /\ resp.req.method = "GET" /\ resp.req.route = "item" /\ resp.req.id = id1x
    /\ resp.status = 200 /\ resp.data \in employees /\ resp.data.id = 1
    /\ byQuery(id1x) = {[resp EXCEPT !.req.route = "collection"]}

C28_OneDeleteWins ==
    [][\A p \in Procs :
         DeleteStep(p) /\ resp'.status = 200
         => /\ resp'.data \in employees
            /\ resp'.data.id = idOf(handlers[p].req)
            /\ resp'.data \notin employees']_vars

\* C29: a PUT (either route) answered 200 with the record leaves it holding
\* the values of its payload in the fields the payload names and, in every
\* other field but updatedAt, the values the table held when the update was
\* written, among them those written since the PUT's existence check: of two
\* accepted updates of one record that name different fields, the later
\* write undoes nothing of the earlier.
C29_NoLostUpdate ==
    [][\A p \in Procs :
         PutStep(p) /\ handlers'[p].pc = "idle" /\ resp'.status = 200
         => LET b == handlers[p].req.body
            IN \A e \in selectById(idOf(handlers[p].req)) :
                 /\ resp'.data \in employees'
                 /\ \A f \in Fields :
                      resp'.data[f] = IF Defined(b[f]) THEN Sanitized(b, f) ELSE e[f]]_vars

\* C29 witness: after a creation and two updates all requests are answered,
\* and record 1 holds the salary and email of the query-form payload and the
\* last name of the path-form payload. Its updatedAt is the instant 0 the
\* query-form PUT read, with the clock at the instant 1 the path-form PUT
\* read after it: the path-form update was written between the query-form
\* PUT's existence check and its write.
C29_Witness ==
    /\ nreq = 3 /\ \A p \in Procs : handlers[p].pc = "idle"
    /\ resp.req.method = "PUT" /\ resp.req.route = "collection" /\ resp.status = 200
    /\ resp.data \in employees
    /\ resp.data.salary = Num(80) /\ resp.data.email = Str(emailX)
    /\ resp.data.lastName = Str(Ed)
    /\ resp.data.updatedAt = 0 /\ clock = 1

\* an id that is missing, empty, or text parseInt finds no number in
Unparseable(id) == id.t # "string" \/ id.s = <<>> \/ parseInt(id.s).nan

\* C30: a PUT or DELETE (either route) whose id is missing or does not parse
\* is answered 400 INVALID_ID in the step it arrives, no storage call made
\* and no handler left suspended; one whose id parses to the id of no
\* stored record is answered 404 EMPLOYEE_NOT_FOUND in that step, whatever
\* its payload.
C30_IdThenExistenceThenPayload ==
    [][LET r == Arrived
       IN r.method \in {"PUT", "DELETE"}
          => IF Unparseable(r.id)
             THEN /\ resp'.req = r /\ resp'.status = 400 /\ resp'.code = "INVALID_ID"
                  /\ handlers' = handlers /\ employees' = employees
             ELSE selectById(idOf(r)) = {}
                  => /\ resp'.req = r /\ resp'.status = 404
                     /\ resp'.code = "EMPLOYEE_NOT_FOUND"
                     /\ handlers' = handlers /\ employees' = employees]_vars

\* C30 witness: with a record stored, a PUT of salary -10, which section 4.1
\* refuses, to id 9 was answered 404 EMPLOYEE_NOT_FOUND.
C30_Witness ==
    /\ employees # {}
    /\ resp.req.method = "PUT" /\ resp.req.id = id9
    /\ resp.req.body.salary = Num(-10)
    /\ resp.status = 404 /\ resp.code = "EMPLOYEE_NOT_FOUND"

====
